---- MODULE Spec2Model ----
(***************************************************************************)
(* A model of Kainjow::BasicMustache (src/mustache.hpp): the string        *)
(* utilities, the Data variant, the Context stack, the parser and the      *)
(* renderer.                                                               *)
(*                                                                         *)
(* Strings are sequences of one-character strings; offsets are 0-based as  *)
(* in the source (std::basic_string), npos is -1.                          *)
(***************************************************************************)
EXTENDS Integers, Sequences, FiniteSets, TLC

VARIABLES
    pc,      \* "parse" until render has run, then "rendered"; "context" in SpecContext
    given,   \* the pieces the input was put together from (never read by the program)
    input,   \* the template source
    data,    \* the Data handed to render
    ps,      \* the locals and members of parse()
    rr,      \* what render wrote and left behind
    items,   \* a Context's items_
    qname,   \* the name last handed to Context::get
    qres     \* what it returned

vars == <<pc, given, input, data, ps, rr, items, qname, qres>>

(***************************************************************************)
(* std::basic_string helpers                                               *)
(***************************************************************************)
npos == 0 - 1

\* isspace() in the "C" locale (\v cannot be written in a TLA+ string)
WhiteSpace == {" ", "\t", "\n", "\r", "\f"}

isspace(ch) == ch \in WhiteSpace

\* StringType{s, pos, len} / s.substr(pos, len): 0-based, len clipped to the end
SubStr(s, pos, len) ==
    LET last == IF pos + len > Len(s) THEN Len(s) ELSE pos + len
    IN  SubSeq(s, pos + 1, last)

\* s.at(pos)
At(s, pos) == s[pos + 1]

\* does needle occur in s at offset i
OccursAt(s, needle, i) ==
    /\ i >= 0
    /\ i + Len(needle) <= Len(s)
    /\ \A k \in 1..Len(needle) : s[i + k] = needle[k]

\* s.find(needle, from): the least offset >= from where needle occurs, else npos
Find(s, needle, from) ==
    LET hits == {i \in from..(Len(s) - Len(needle)) : OccursAt(s, needle, i)}
    IN  IF hits = {} THEN npos
        ELSE CHOOSE i \in hits : \A j \in hits : i <= j

\* s.find_first_not_of(ch, from)
FindFirstNotOf(s, ch, from) ==
    LET hits == {i \in from..(Len(s) - 1) : At(s, i) # ch}
    IN  IF hits = {} THEN npos
        ELSE CHOOSE i \in hits : \A j \in hits : i <= j

\* trim(s): drop leading and trailing isspace characters
trim(s) ==
    LET nonsp == {i \in 1..Len(s) : ~isspace(s[i])}
    IN  IF nonsp = {} THEN <<>>
        ELSE LET lo == CHOOSE i \in nonsp : \A j \in nonsp : i <= j
                 hi == CHOOSE i \in nonsp : \A j \in nonsp : i >= j
             IN  SubSeq(s, lo, hi)

\* escapeChar without the case for the apostrophe
escapeCharNoApos(ch) ==
    CASE ch = "&"  -> <<"&", "a", "m", "p", ";">>
      [] ch = "<"  -> <<"&", "l", "t", ";">>
      [] ch = ">"  -> <<"&", "g", "t", ";">>
      [] ch = "\"" -> <<"&", "q", "u", "o", "t", ";">>
      [] OTHER     -> <<ch>>

\* the switch in the loop of escape(s)
escapeChar(ch) ==
    CASE ch = "&"  -> <<"&", "a", "m", "p", ";">>
      [] ch = "<"  -> <<"&", "l", "t", ";">>
      [] ch = ">"  -> <<"&", "g", "t", ";">>
      [] ch = "\"" -> <<"&", "q", "u", "o", "t", ";">>
      [] ch = "'"  -> <<"&", "a", "p", "o", "s", ";">>
      [] OTHER     -> <<ch>>

RECURSIVE escape(_)
escape(s) ==
    IF s = <<>> THEN <<>>
    ELSE escapeChar(Head(s)) \o escape(Tail(s))

(***************************************************************************)
(* Data: the variant.  obj is a sequence of <<name, Data>> pairs with      *)
(* distinct names (std::unordered_map), list a sequence of Data, str the   *)
(* string of a String, the source a Partial's producer returns, or the     *)
(* prefix a Lambda writes before (echo) its argument.                      *)
(***************************************************************************)
MkData(t, s, o, l, e) == [type |-> t, str |-> s, obj |-> o, list |-> l, echo |-> e]

DObject(o)     == MkData("Object", <<>>, o, <<>>, FALSE)
DString(s)     == MkData("String", s, <<>>, <<>>, FALSE)
DList(l)       == MkData("List", <<>>, <<>>, l, FALSE)
DTrue          == MkData("True", <<>>, <<>>, <<>>, FALSE)
DFalse         == MkData("False", <<>>, <<>>, <<>>, FALSE)
DPartial(s)    == MkData("Partial", s, <<>>, <<>>, FALSE)
DLambda(s, e)  == MkData("Lambda", s, <<>>, <<>>, e)
DInvalid       == MkData("Invalid", <<>>, <<>>, <<>>, FALSE)

\* a null const Data*
nullptr == MkData("nullptr", <<>>, <<>>, <<>>, FALSE)

isObject(d)       == d.type = "Object"
isString(d)       == d.type = "String"
isList(d)         == d.type = "List"
isTrue(d)         == d.type = "True"
isFalse(d)        == d.type = "False"
isPartial(d)      == d.type = "Partial"
isLambda(d)       == d.type = "Lambda"
isEmptyList(d)    == isList(d) /\ d.list = <<>>
isNonEmptyList(d) == isList(d) /\ d.list # <<>>

\* Data::get(name)
DataGet(d, name) ==
    IF ~isObject(d) THEN nullptr
    ELSE LET hits == {i \in 1..Len(d.obj) : d.obj[i][1] = name}
         IN  IF hits = {} THEN nullptr
             ELSE d.obj[CHOOSE i \in hits : TRUE][2]

\* Data::callLambda(text): the modelled lambdas write str, then text if echo
callLambda(d, text) == DString(d.str \o (IF d.echo THEN text ELSE <<>>))

(***************************************************************************)
(* Context: items_ is a sequence of frames, innermost first                *)
(***************************************************************************)
Push(its, d) == <<d>> \o its

Pop(its) == Tail(its)

\* Context::split: std::getline pieces; a final empty piece is not produced
RECURSIVE SplitFrom(_, _, _, _)
SplitFrom(s, i, cur, acc) ==
    IF i > Len(s) THEN (IF cur = <<>> THEN acc ELSE Append(acc, cur))
    ELSE IF s[i] = "." THEN SplitFrom(s, i + 1, <<>>, Append(acc, cur))
    ELSE SplitFrom(s, i + 1, Append(cur, s[i]), acc)

split(s) == SplitFrom(s, 1, <<>>, <<>>)

\* the inner loop of Context::get: walk the names from one frame
RECURSIVE WalkNames(_, _)
WalkNames(var, names) ==
    IF names = <<>> THEN var
    ELSE LET v == DataGet(var, Head(names))
         IN  IF v = nullptr THEN nullptr ELSE WalkNames(v, Tail(names))

\* GetFrames committing to the first frame that has the first name
RECURSIVE GetFramesCommit(_, _)
GetFramesCommit(its, names) ==
    IF its = <<>> THEN nullptr
    ELSE IF DataGet(Head(its), Head(names)) # nullptr THEN WalkNames(Head(its), names)
    ELSE GetFramesCommit(Tail(its), names)

\* the outer loop of Context::get: frame by frame, each from the first name
RECURSIVE GetFrames(_, _)
GetFrames(its, names) ==
    IF its = <<>> THEN nullptr
    ELSE LET var == WalkNames(Head(its), names)
         IN  IF var # nullptr THEN var ELSE GetFrames(Tail(its), names)

\* Context::get(name)
ContextGet(its, name) ==
    IF Len(name) = 1 /\ name[1] = "." THEN Head(its)
    ELSE LET names0 == split(name)
             names  == IF names0 = <<>> THEN << <<>> >> ELSE names0
         IN  GetFrames(its, names)

\* get_partial passing over the bindings that are not of kind Partial
RECURSIVE get_partialSkip(_, _)
get_partialSkip(its, name) ==
    IF its = <<>> THEN nullptr
    ELSE LET var == DataGet(Head(its), name)
         IN  IF var # nullptr /\ isPartial(var) THEN var
             ELSE get_partialSkip(Tail(its), name)

\* Context::get_partial(name)
RECURSIVE get_partial(_, _)
get_partial(its, name) ==
    IF its = <<>> THEN nullptr
    ELSE LET var == DataGet(Head(its), name)
         IN  IF var # nullptr THEN var ELSE get_partial(Tail(its), name)

(***************************************************************************)
(* DelimiterSet, Tag, Component                                            *)
(***************************************************************************)
defaultBegin == <<"{", "{">>

defaultEnd == <<"}", "}">>

DefaultDelimiterSet == [begin |-> defaultBegin, end |-> defaultEnd]

\* isDefault comparing begin with the default end
isDefaultNever(d) == d.begin = defaultEnd /\ d.end = defaultEnd

isDefault(d) == d.begin = defaultBegin /\ d.end = defaultEnd

\* a null shared_ptr<DelimiterSet>
NullDelimiterSet == [begin |-> <<>>, end |-> <<>>]

\* Tag; hasSectionText is FALSE while the sectionText pointer is null
MkTag(n, t) ==
    [name |-> n, type |-> t, sectionText |-> <<>>, hasSectionText |-> FALSE,
     delimiterSet |-> NullDelimiterSet]

isSectionBegin(tag) == tag.type \in {"SectionBegin", "SectionBeginInverted"}

isSectionEnd(tag) == tag.type = "SectionEnd"

\* Component(t, p): a text component
TextComponent(t, p) ==
    [text |-> t, tag |-> MkTag(<<>>, "Invalid"), children |-> <<>>, position |-> p]

\* a default-constructed Component given a tag and a position
TagComponent(tag, p) ==
    [text |-> <<>>, tag |-> tag, children |-> <<>>, position |-> p]

isText(comp) == comp.tag.type = "Invalid"

\* errorMessage_: the text is kept as its parts, kind "" is the empty string
\*   "Unclosed tag at <pos>", "Invalid set delimiter tag at <pos>",
\*   "Unopened section \"<name>\" at <pos>", "Unclosed section \"<name>\" at <pos>"
NoError == [kind |-> "", name |-> <<>>, pos |-> 0]

MkError(k, n, p) == [kind |-> k, name |-> n, pos |-> p]

\* BasicMustache::isValid applied to an errorMessage_
isValid(err) == err.kind = ""

(***************************************************************************)
(* Component* into the tree under rootComponent_: the path of child        *)
(* indexes from the root                                                   *)
(***************************************************************************)
RECURSIVE CompAt(_, _)
CompAt(c, path) ==
    IF path = <<>> THEN c
    ELSE CompAt(c.children[Head(path)], Tail(path))

\* ptr->children.push_back(child)
RECURSIVE PushChildAt(_, _, _)
PushChildAt(c, path, child) ==
    IF path = <<>> THEN [c EXCEPT !.children = Append(@, child)]
    ELSE [c EXCEPT !.children[Head(path)] = PushChildAt(@, Tail(path), child)]

\* SetSectionTextAt storing the text trimmed
RECURSIVE SetSectionTextAtTrimmed(_, _, _)
SetSectionTextAtTrimmed(c, path, txt) ==
    IF path = <<>>
    THEN [c EXCEPT !.tag.sectionText = trim(txt), !.tag.hasSectionText = TRUE]
    ELSE [c EXCEPT !.children[Head(path)] = SetSectionTextAtTrimmed(@, Tail(path), txt)]

\* ptr->tag.sectionText.reset(new StringType(txt))
RECURSIVE SetSectionTextAt(_, _, _)
SetSectionTextAt(c, path, txt) ==
    IF path = <<>>
    THEN [c EXCEPT !.tag.sectionText = txt, !.tag.hasSectionText = TRUE]
    ELSE [c EXCEPT !.children[Head(path)] = SetSectionTextAt(@, Tail(path), txt)]

Back(stack) == stack[Len(stack)]

PopBack(stack) == SubSeq(stack, 1, Len(stack) - 1)

(***************************************************************************)
(* Parser                                                                  *)
(***************************************************************************)
\* isSetDelimiterValid letting the equals sign through
isSetDelimiterValidNoEquals(delimiter) ==
    \A i \in 1..Len(delimiter) : ~isspace(delimiter[i])

isSetDelimiterValid(delimiter) ==
    \A i \in 1..Len(delimiter) : delimiter[i] # "=" /\ ~isspace(delimiter[i])

\* what parseSetDelimiterTag returns, and whether its assert failed on the way
SetDelimiterResult(ok, delimiterSet, assertFailed) ==
    [ok |-> ok, delimiterSet |-> delimiterSet, assertFailed |-> assertFailed]

\* parseSetDelimiterTag(contents, delimiterSet): [ok, delimiterSet, assertFailed].
\* A failed assert(nonspace != npos) ends the program (and where asserts are
\* compiled out, substr(npos, ...) throws): nothing is returned then.
parseSetDelimiterTag(contents, delimiterSet) ==
    IF Len(contents) < 5 THEN SetDelimiterResult(FALSE, delimiterSet, FALSE)
    ELSE IF contents[Len(contents)] # "=" THEN SetDelimiterResult(FALSE, delimiterSet, FALSE)
    ELSE LET contentsSubstr == trim(SubStr(contents, 1, Len(contents) - 2))
             spacepos == Find(contentsSubstr, <<" ">>, 0)
         IN  IF spacepos = npos THEN SetDelimiterResult(FALSE, delimiterSet, FALSE)
             ELSE LET nonspace == FindFirstNotOf(contentsSubstr, " ", spacepos + 1)
                      begin == SubStr(contentsSubstr, 0, spacepos)
                      end == SubStr(contentsSubstr, nonspace, Len(contentsSubstr) - nonspace)
                  IN  IF nonspace = npos THEN SetDelimiterResult(FALSE, delimiterSet, TRUE)
                      ELSE IF ~isSetDelimiterValid(begin) \/ ~isSetDelimiterValid(end)
                      THEN SetDelimiterResult(FALSE, delimiterSet, FALSE)
                      ELSE SetDelimiterResult(TRUE, [begin |-> begin, end |-> end], FALSE)

\* the tag type parseTagContents chooses from the first character
SigilType(ch) ==
    CASE ch = "#" -> "SectionBegin"
      [] ch = "^" -> "SectionBeginInverted"
      [] ch = "/" -> "SectionEnd"
      [] ch = ">" -> "Partial"
      [] ch = "&" -> "UnescapedVariable"
      [] ch = "!" -> "Comment"
      [] OTHER    -> "Variable"

\* parseTagContents(isUnescapedVar, contents, tag): the tag it fills in
parseTagContents(isUnescapedVar, contents) ==
    IF isUnescapedVar THEN MkTag(contents, "UnescapedVariable")
    ELSE IF contents = <<>> THEN MkTag(<<>>, "Variable")
    ELSE LET type == SigilType(contents[1])
         IN  IF type = "Variable" THEN MkTag(contents, type)
             ELSE MkTag(trim(Tail(contents)), type)

braceDelimiterEndUnescaped == <<"}", "}", "}">>

\* the locals of parse() at its entry; state is "scan" in the while loop,
\* "walk" after it, "done" when parse has returned, "aborted" when an assert
\* has ended the program, "out_of_range" when input.at() has thrown
ParseInit(inp, delimiterSet) ==
    [input |-> inp,
     delimiterSet |-> delimiterSet,
     currentDelimiterIsBrace |-> isDefault(delimiterSet),
     sections |-> << <<>> >>,
     sectionStarts |-> <<>>,
     inputPosition |-> 0,
     rootComponent |-> TagComponent(MkTag(<<>>, "Invalid"), npos),
     errorMessage |-> NoError,
     state |-> "scan"]

\* return from parse() with an error message
ParseFail(p, root, err) ==
    [p EXCEPT !.rootComponent = root, !.errorMessage = err, !.state = "done"]

\* PushOrPopSections leaving sectionStarts as it is at an end tag
PushOrPopSectionsKeepStart(p, root, comp, tagLocationStart, newPosition) ==
    LET q == [p EXCEPT !.rootComponent = root, !.inputPosition = newPosition]
    IN  IF isSectionBegin(comp.tag)
        THEN [q EXCEPT
                !.sections = Append(@, Back(p.sections)
                                \o <<Len(CompAt(root, Back(p.sections)).children)>>),
                !.sectionStarts = Append(@, newPosition)]
        ELSE IF isSectionEnd(comp.tag)
        THEN IF Len(p.sections) = 1
             THEN ParseFail(q, root, MkError("Unopened section", comp.tag.name, comp.position))
             ELSE [q EXCEPT
                     !.rootComponent = SetSectionTextAt(root, Back(p.sections),
                         SubStr(p.input, Back(p.sectionStarts),
                                tagLocationStart - Back(p.sectionStarts))),
                     !.sections = PopBack(@)]
        ELSE q

\* "Push or pop sections": the end of one iteration, the tag already appended
PushOrPopSections(p, root, comp, tagLocationStart, newPosition) ==
    LET q == [p EXCEPT !.rootComponent = root, !.inputPosition = newPosition]
    IN  IF isSectionBegin(comp.tag)
        THEN [q EXCEPT
                !.sections = Append(@, Back(p.sections)
                                \o <<Len(CompAt(root, Back(p.sections)).children)>>),
                !.sectionStarts = Append(@, newPosition)]
        ELSE IF isSectionEnd(comp.tag)
        THEN IF Len(p.sections) = 1
             THEN ParseFail(q, root, MkError("Unopened section", comp.tag.name, comp.position))
             ELSE [q EXCEPT
                     !.rootComponent = SetSectionTextAt(root, Back(p.sections),
                         SubStr(p.input, Back(p.sectionStarts),
                                tagLocationStart - Back(p.sectionStarts))),
                     !.sections = PopBack(@),
                     !.sectionStarts = PopBack(@)]
        ELSE q

\* "Parse tag": from the tag's contents to the end of the iteration
ParseTag(p, root, tagLocationStart, tagIsUnescapedVar, tagContents, newPosition) ==
    LET isSet == tagContents # <<>> /\ tagContents[1] = "="
        sd == parseSetDelimiterTag(tagContents, p.delimiterSet)
    IN  IF isSet /\ sd.assertFailed
        THEN [p EXCEPT !.rootComponent = root, !.state = "aborted"]
        ELSE IF isSet /\ ~sd.ok
        THEN ParseFail(p, root, MkError("Invalid set delimiter tag", <<>>, tagLocationStart))
        ELSE LET tag == IF isSet
                        THEN [MkTag(<<>>, "SetDelimiter") EXCEPT !.delimiterSet = sd.delimiterSet]
                        ELSE parseTagContents(tagIsUnescapedVar, tagContents)
                 comp == TagComponent(tag, tagLocationStart)
                 q == IF isSet
                      THEN [p EXCEPT !.delimiterSet = sd.delimiterSet,
                                     !.currentDelimiterIsBrace = isDefault(sd.delimiterSet)]
                      ELSE p
             IN  PushOrPopSections(q, PushChildAt(root, Back(p.sections), comp),
                                   comp, tagLocationStart, newPosition)

\* one iteration of the while loop of parse(), entered with
\* inputPosition # inputSize
ScanIteration(p) ==
    LET inputSize == Len(p.input)
        tagLocationStart == Find(p.input, p.delimiterSet.begin, p.inputPosition)
    IN  IF tagLocationStart = npos
        THEN [p EXCEPT
                !.rootComponent = PushChildAt(@, Back(p.sections),
                    TextComponent(SubStr(p.input, p.inputPosition, inputSize - p.inputPosition),
                                  p.inputPosition)),
                !.state = "walk"]
        ELSE
        LET root1 == IF tagLocationStart # p.inputPosition
                     THEN PushChildAt(p.rootComponent, Back(p.sections),
                              TextComponent(SubStr(p.input, p.inputPosition,
                                                   tagLocationStart - p.inputPosition),
                                            p.inputPosition))
                     ELSE p.rootComponent
            tagContentsLocation0 == tagLocationStart + Len(p.delimiterSet.begin)
            \* input.at(tagContentsLocation) throws when the offset is outside
            readOutside ==
                /\ p.currentDelimiterIsBrace
                /\ tagLocationStart # inputSize - 2
                /\ tagContentsLocation0 >= inputSize
            tagIsUnescapedVar ==
                /\ p.currentDelimiterIsBrace
                /\ tagLocationStart # inputSize - 2
                /\ At(p.input, tagContentsLocation0) = p.delimiterSet.begin[1]
            currentTagDelimiterEnd ==
                IF tagIsUnescapedVar THEN braceDelimiterEndUnescaped ELSE p.delimiterSet.end
            tagContentsLocation ==
                IF tagIsUnescapedVar THEN tagContentsLocation0 + 1 ELSE tagContentsLocation0
            tagLocationEnd == Find(p.input, currentTagDelimiterEnd, tagContentsLocation)
        IN  IF readOutside THEN [p EXCEPT !.rootComponent = root1, !.state = "out_of_range"]
            ELSE IF tagLocationEnd = npos
            THEN ParseFail(p, root1, MkError("Unclosed tag", <<>>, tagLocationStart))
            ELSE ParseTag(p, root1, tagLocationStart, tagIsUnescapedVar,
                          trim(SubStr(p.input, tagContentsLocation,
                                      tagLocationEnd - tagContentsLocation)),
                          tagLocationEnd + Len(currentTagDelimiterEnd))

\* the while loop's test, then one iteration
ScanStep(p) ==
    IF p.inputPosition = Len(p.input) THEN [p EXCEPT !.state = "walk"]
    ELSE ScanIteration(p)

\* CheckSectionCallback without the comparison of the two names
CheckSectionCallbackAnyName(comp) ==
    IF ~isSectionBegin(comp.tag)
    THEN [control |-> "Continue", comp |-> comp, errorMessage |-> NoError]
    ELSE IF comp.children = <<>> \/ ~isSectionEnd(Back(comp.children).tag)
    THEN [control |-> "Stop", comp |-> comp,
          errorMessage |-> MkError("Unclosed section", comp.tag.name, comp.position)]
    ELSE [control |-> "Continue", comp |-> [comp EXCEPT !.children = PopBack(@)],
          errorMessage |-> NoError]

\* the callback parse() hands to walk(): [control, comp, errorMessage]; comp is
\* the callback's Component&, with its trailing SectionEnd popped
CheckSectionCallback(comp) ==
    IF ~isSectionBegin(comp.tag)
    THEN [control |-> "Continue", comp |-> comp, errorMessage |-> NoError]
    ELSE IF \/ comp.children = <<>>
            \/ ~isSectionEnd(Back(comp.children).tag)
            \/ Back(comp.children).tag.name # comp.tag.name
    THEN [control |-> "Stop", comp |-> comp,
          errorMessage |-> MkError("Unclosed section", comp.tag.name, comp.position)]
    ELSE [control |-> "Continue", comp |-> [comp EXCEPT !.children = PopBack(@)],
          errorMessage |-> NoError]

\* walkComponent / walkChildren under that callback.  Both loops are
\* "for (auto childComp : comp.children)": the callback is given a copy of
\* each child, so what it pops is popped from the copy and the walk descends
\* into the copy; rootComponent_ is not changed.
RECURSIVE CheckWalkComponent(_), CheckWalkLoop(_, _)
CheckWalkComponent(comp) ==
    LET r == CheckSectionCallback(comp)
    IN  IF r.control = "Stop" THEN [control |-> "Stop", errorMessage |-> r.errorMessage]
        ELSE CheckWalkLoop(r.comp.children, 1)

CheckWalkLoop(children, i) ==
    IF i > Len(children) THEN [control |-> "Continue", errorMessage |-> NoError]
    ELSE LET r == CheckWalkComponent(children[i])
         IN  IF r.control = "Stop" THEN r ELSE CheckWalkLoop(children, i + 1)

\* "Check for sections without an ending tag": the rest of parse()
CheckSections(p) ==
    [p EXCEPT !.errorMessage = CheckWalkLoop(p.rootComponent.children, 1).errorMessage,
              !.state = "done"]

ParseStep(p) ==
    IF p.state = "scan" THEN ScanStep(p) ELSE CheckSections(p)

\* parse(input, ctx) run to its return
RECURSIVE ParseRun(_)
ParseRun(p) ==
    IF p.state \in {"done", "aborted", "out_of_range"} THEN p ELSE ParseRun(ParseStep(p))

\* BasicMustache(input, ctx): [rootComponent, errorMessage, delimiterSet], the
\* last being ctx.delimiterSet after the constructor
Parse(inp, delimiterSet) ==
    LET p == ParseRun(ParseInit(inp, delimiterSet))
    IN  [rootComponent |-> p.rootComponent, errorMessage |-> p.errorMessage,
         delimiterSet |-> p.delimiterSet]

(***************************************************************************)
(* Renderer.  A render state r holds what a render reads and writes:       *)
(*   out           what the RenderHandler has been given so far            *)
(*   items         ctx.items_                                              *)
(*   delimiterSet  ctx.delimiterSet                                        *)
(*   errorMessage  errorMessage_ of the template being rendered            *)
(*   ub            a null sectionText has been dereferenced                *)
(*   log           history of the render: an entry for each section tag    *)
(*                 evaluated, body walked, lambda called and sub-template  *)
(*                 error, with the context and the output length then      *)
(***************************************************************************)
RenderInit(its, err) ==
    [out |-> <<>>, items |-> its, delimiterSet |-> DefaultDelimiterSet,
     errorMessage |-> err, ub |-> FALSE, log |-> <<>>]

LogEntry(r, ev, text, position) ==
    [ev |-> ev, text |-> text, position |-> position, items |-> r.items,
     delimiterSet |-> r.delimiterSet, outLen |-> Len(r.out)]

Logged(r, ev, text, position) ==
    [r EXCEPT !.log = Append(@, LogEntry(r, ev, text, position))]

\* handler(str)
Write(r, str) == [r EXCEPT !.out = @ \o str]

RECURSIVE renderComponent(_, _), renderWalkComponent(_, _), renderWalkLoop(_, _, _)
RECURSIVE renderWalkChildren(_, _), renderSection(_, _, _), renderSectionList(_, _, _, _)
RECURSIVE renderLambda(_, _, _, _, _), renderVariable(_, _, _), renderPartial(_, _)
RECURSIVE renderWalkLoopNext(_, _, _), renderWalkCallbackDone(_, _), renderSectionFrame(_, _, _, _)
RECURSIVE renderSectionListNext(_, _, _, _), renderLambdaParsed(_, _, _), renderPartialParsed(_, _, _)
RECURSIVE renderSectionTag(_, _, _), renderLambdaTemplate(_, _, _, _)

\* Each operator below names the result of a call it makes once and hands it
\* to the operator that continues from there (...Next, ...Done, ...Parsed).

\* render(handler, ctx): walk() with renderComponent as the callback
render(root, r) == renderWalkChildren(r, root)

\* walkChildren(callback, comp) with callback = renderComponent
renderWalkChildren(r, comp) == renderWalkLoop(r, comp.children, 1).r

\* the loop of walkChildren, from child i
renderWalkLoop(r, children, i) ==
    IF i > Len(children) THEN [control |-> "Continue", r |-> r]
    ELSE renderWalkLoopNext(renderWalkComponent(r, children[i]), children, i)

\* it breaks when walkComponent did not return Continue
renderWalkLoopNext(c, children, i) ==
    IF c.control # "Continue" THEN c
    ELSE renderWalkLoop(c.r, children, i + 1)

\* walkComponent(callback, comp) with callback = renderComponent
renderWalkComponent(r, comp) == renderWalkCallbackDone(renderComponent(r, comp), comp)

\* walkComponent after the callback returned c: Stop is returned, Skip becomes
\* Continue, and on Continue the component's children are walked
renderWalkCallbackDone(c, comp) ==
    IF c.control = "Stop" THEN c
    ELSE IF c.control = "Skip" THEN [control |-> "Continue", r |-> c.r]
    ELSE IF comp.children = <<>> THEN c
    ELSE renderWalkLoop(c.r, comp.children, 1)

\* the template and the context after renderLambda constructed tmpl
LambdaContext(r, tmpl, parseWithSameContext) ==
    IF parseWithSameContext THEN [r EXCEPT !.delimiterSet = tmpl.delimiterSet] ELSE r

\* renderLambda after tmpl.render(ctx) returned sub
LambdaRendered(r1, sub, escaped) ==
    IF ~isValid(sub.errorMessage)
    THEN [ok |-> FALSE, r |-> [sub EXCEPT !.out = r1.out]]
    ELSE [ok |-> TRUE,
          r |-> [sub EXCEPT !.out = r1.out \o (IF escaped THEN escape(sub.out) ELSE sub.out),
                            !.errorMessage = r1.errorMessage]]

\* renderLambda after tmpl was constructed, r1 the context then
renderLambdaParsed(r1, tmpl, escaped) ==
    IF ~isValid(tmpl.errorMessage)
    THEN [ok |-> FALSE,
          r |-> [Logged(r1, "error", <<>>, npos) EXCEPT !.errorMessage = tmpl.errorMessage]]
    ELSE LambdaRendered(r1,
             render(tmpl.rootComponent, [r1 EXCEPT !.out = <<>>, !.errorMessage = NoError]),
             escaped)

\* BasicMustache tmpl = parseWithSameContext ? {str, ctx} : {str}
LambdaTemplate(r, var, text, parseWithSameContext) ==
    Parse(callLambda(var, text).str,
          IF parseWithSameContext THEN r.delimiterSet ELSE DefaultDelimiterSet)

\* renderLambda once tmpl is constructed: parsing with ctx has changed ctx
renderLambdaTemplate(r, tmpl, escaped, parseWithSameContext) ==
    renderLambdaParsed(LambdaContext(r, tmpl, parseWithSameContext), tmpl, escaped)

\* renderLambda(handler, var, ctx, escaped, text, parseWithSameContext): [ok, r]
renderLambda(r, var, escaped, text, parseWithSameContext) ==
    renderLambdaTemplate(Logged(r, "callLambda", text, npos),
                         LambdaTemplate(r, var, text, parseWithSameContext),
                         escaped, parseWithSameContext)

\* renderVariable(handler, var, ctx, escaped): [ok, r]
renderVariable(r, var, escaped) ==
    IF isString(var)
    THEN [ok |-> TRUE, r |-> Write(r, IF escaped THEN escape(var.str) ELSE var.str)]
    ELSE IF isLambda(var) THEN renderLambda(r, var, escaped, <<>>, FALSE)
    ELSE [ok |-> TRUE, r |-> r]

\* PopFrame leaving the frame when the walk under it ended in an error
PopFrameUnlessError(r, pushed) ==
    IF pushed /\ isValid(r.errorMessage) THEN [r EXCEPT !.items = Pop(@)] ELSE r

\* ~ContextPusher (when one was constructed)
PopFrame(r, pushed) == IF pushed THEN [r EXCEPT !.items = Pop(@)] ELSE r

\* one walkChildren(callback, incomp) of renderSection, under a ContextPusher
\* for frame when pushed
renderSectionFrame(r, incomp, frame, pushed) ==
    PopFrame(
        renderWalkChildren(
            Logged(IF pushed THEN [r EXCEPT !.items = Push(@, frame)] ELSE r,
                   "walkChildren", incomp.tag.name, incomp.position),
            incomp),
        pushed)

\* the loop of renderSection over var->list(), from item i
renderSectionList(r, incomp, list, i) ==
    IF i > Len(list) THEN r
    ELSE renderSectionListNext(renderSectionFrame(r, incomp, list[i], TRUE), incomp, list, i)

renderSectionListNext(r, incomp, list, i) == renderSectionList(r, incomp, list, i + 1)

\* renderSection(handler, ctx, incomp, var)
renderSection(r, incomp, var) ==
    IF var # nullptr /\ isNonEmptyList(var)
    THEN renderSectionList(r, incomp, var.list, 1)
    ELSE renderSectionFrame(r, incomp, var, var # nullptr)

\* case Partial after tmpl.render(handler, ctx) returned sub
PartialRendered(r, sub) ==
    IF ~isValid(sub.errorMessage)
    THEN [control |-> "Stop", r |-> sub]
    ELSE [control |-> "Continue", r |-> [sub EXCEPT !.errorMessage = r.errorMessage]]

\* case Partial after BasicMustache tmpl{partial()}
renderPartialParsed(r, tmpl, comp) ==
    IF ~isValid(tmpl.errorMessage)
    THEN [control |-> "Stop",
          r |-> [Logged(r, "error", comp.tag.name, comp.position)
                    EXCEPT !.errorMessage = tmpl.errorMessage]]
    ELSE PartialRendered(r, render(tmpl.rootComponent, [r EXCEPT !.errorMessage = NoError]))

\* the var of case Partial
PartialVar(r, comp) == get_partial(r.items, comp.tag.name)

\* case Tag::Type::Partial of renderComponent: [control, r]
renderPartial(r, comp) ==
    IF PartialVar(r, comp) # nullptr /\ isPartial(PartialVar(r, comp))
    THEN renderPartialParsed(r, Parse(PartialVar(r, comp).str, DefaultDelimiterSet), comp)
    ELSE [control |-> "Continue", r |-> r]

\* SectionWalks taking an empty list for a value like any other
SectionWalksEmptyList(type, var) ==
    IF type = "SectionBegin"
    THEN var # nullptr /\ ~isLambda(var) /\ ~isFalse(var)
    ELSE var = nullptr \/ isFalse(var)

\* does the section tag of type with value var walk its body through
\* renderSection (the conditions of the two cases of renderComponent)
SectionWalks(type, var) ==
    IF type = "SectionBegin"
    THEN var # nullptr /\ ~isLambda(var) /\ ~isFalse(var) /\ ~isEmptyList(var)
    ELSE var = nullptr \/ isFalse(var) \/ isEmptyList(var)

\* the control a failed renderVariable / renderLambda makes renderComponent return
ControlOf(res, control) ==
    [control |-> IF res.ok THEN control ELSE "Stop", r |-> res.r]

\* cases SectionBegin and SectionBeginInverted of renderComponent, var resolved
renderSectionTag(r, comp, var) ==
    IF comp.tag.type = "SectionBegin" /\ var # nullptr /\ isLambda(var)
    THEN IF ~comp.tag.hasSectionText
         THEN [control |-> "Stop", r |-> [r EXCEPT !.ub = TRUE]]
         ELSE ControlOf(renderLambda(r, var, FALSE, comp.tag.sectionText, TRUE), "Skip")
    ELSE IF SectionWalks(comp.tag.type, var)
    THEN [control |-> "Skip", r |-> renderSection(r, comp, var)]
    ELSE [control |-> "Skip", r |-> r]

\* renderComponent(handler, ctx, comp): [control, r]
renderComponent(r, comp) ==
    IF isText(comp) THEN [control |-> "Continue", r |-> Write(r, comp.text)]
    ELSE IF comp.tag.type \in {"Variable", "UnescapedVariable"}
    THEN IF ContextGet(r.items, comp.tag.name) # nullptr
         THEN ControlOf(renderVariable(r, ContextGet(r.items, comp.tag.name),
                                       comp.tag.type = "Variable"),
                        "Continue")
         ELSE [control |-> "Continue", r |-> r]
    ELSE IF isSectionBegin(comp.tag)
    THEN renderSectionTag(Logged(r, comp.tag.type, comp.tag.name, comp.position),
                          comp, ContextGet(r.items, comp.tag.name))
    ELSE IF comp.tag.type = "Partial" THEN renderPartial(r, comp)
    ELSE IF comp.tag.type = "SetDelimiter"
    THEN [control |-> "Continue", r |-> [r EXCEPT !.delimiterSet = comp.tag.delimiterSet]]
    ELSE [control |-> "Continue", r |-> r]

(***************************************************************************)
(* Inputs                                                                  *)
(***************************************************************************)
StringsUpTo(A, n) == UNION {[1..k -> A] : k \in 0..n}

\* a tag under the default delimiters
Tag(contents) == defaultBegin \o contents \o defaultEnd

\* a tag under the delimiters d
TagIn(d, contents) == d.begin \o contents \o d.end

\* the triple-mustache form
Triple(contents) == <<"{", "{", "{">> \o contents \o <<"}", "}", "}">>

\* The pieces an input is put together from: [kind, name, src], kind "text"
\* or "var" or the sigil of the tag, src the source text of the piece
PText(t) == [kind |-> "text", name |-> <<>>, src |-> t]

PVar(name) == [kind |-> "var", name |-> name, src |-> Tag(name)]

PTag(sigil, name) == [kind |-> sigil, name |-> name, src |-> Tag(<<sigil>> \o name)]

RECURSIVE Flatten(_)
Flatten(pieces) ==
    IF pieces = <<>> THEN <<>> ELSE Head(pieces).src \o Flatten(Tail(pieces))

\* {name: value}
Obj1(n, v) == DObject(<< <<n, v>> >>)

Obj2(n1, v1, n2, v2) == DObject(<< <<n1, v1>>, <<n2, v2>> >>)

Obj3(n1, v1, n2, v2, n3, v3) == DObject(<< <<n1, v1>>, <<n2, v2>>, <<n3, v3>> >>)

(***************************************************************************)
(* The program as a state machine: a template is constructed from input    *)
(* (parse, one loop iteration at a time, then the section check) and then  *)
(* rendered against data.                                                  *)
(***************************************************************************)
InitWith(g, inp, d) ==
    /\ pc = "parse"
    /\ given = g
    /\ input = inp
    /\ data = d
    /\ ps = ParseInit(inp, DefaultDelimiterSet)
    /\ rr = RenderInit(<<>>, NoError)
    /\ items = <<>>
    /\ qname = <<>>
    /\ qres = nullptr

\* one pass through the while loop of parse()
Scan ==
    /\ pc = "parse"
    /\ ps.state = "scan"
    /\ ps' = ScanStep(ps)
    /\ UNCHANGED <<pc, given, input, data, rr, items, qname, qres>>

\* the walk after the loop, and the return of parse()
Check ==
    /\ pc = "parse"
    /\ ps.state = "walk"
    /\ ps' = CheckSections(ps)
    /\ UNCHANGED <<pc, given, input, data, rr, items, qname, qres>>

\* render(data, handler): Context ctx{&data}; render(handler, ctx)
Render ==
    /\ pc = "parse"
    /\ ps.state = "done"
    /\ rr' = render(ps.rootComponent, RenderInit(<<data>>, ps.errorMessage))
    /\ pc' = "rendered"
    /\ UNCHANGED <<given, input, data, ps, items, qname, qres>>

NextRender == Scan \/ Check \/ Render

(***************************************************************************)
(* A Context on its own: push, pop and get                                 *)
(***************************************************************************)
MaxFrames == 3

MaxSegments == 3

a == <<"a">>

b == <<"b">>

c == <<"c">>

Str1(ch) == DString(<<ch>>)

\* the frames pushed
Frames ==
    {Obj1(a, Str1("x")),
     Obj1(a, Obj1(b, Str1("1"))),
     Obj2(a, Obj1(b, Obj1(a, Str1("2"))), b, Str1("3")),
     Obj2(b, Obj1(a, DFalse), c, DList(<<>>)),
     Str1("s")}

\* the names asked for: one to MaxSegments keys joined by '.'
SegmentLists == UNION {[1..k -> {a, b}] : k \in 1..MaxSegments}

RECURSIVE Join(_)
Join(segs) ==
    IF Len(segs) = 1 THEN segs[1]
    ELSE segs[1] \o <<".">> \o Join(Tail(segs))

InitContext ==
    /\ pc = "context"
    /\ given = <<>>
    /\ input = <<>>
    /\ data = nullptr
    /\ ps = ParseInit(<<>>, DefaultDelimiterSet)
    /\ rr = RenderInit(<<>>, NoError)
    /\ items \in {<<f>> : f \in Frames}
    /\ qname = <<>>
    /\ qres = nullptr

\* Context::push(data)
CtxPush ==
    /\ pc = "context"
    /\ Len(items) < MaxFrames
    /\ \E f \in Frames : items' = Push(items, f)
    /\ qname' = <<>>
    /\ qres' = nullptr
    /\ UNCHANGED <<pc, given, input, data, ps, rr>>

\* Context::pop(); a render never pops its root frame
CtxPop ==
    /\ pc = "context"
    /\ Len(items) > 1
    /\ items' = Pop(items)
    /\ qname' = <<>>
    /\ qres' = nullptr
    /\ UNCHANGED <<pc, given, input, data, ps, rr>>

\* Context::get(name)
CtxGet ==
    /\ pc = "context"
    /\ \E segs \in SegmentLists :
          /\ qname' = Join(segs)
          /\ qres' = ContextGet(items, Join(segs))
    /\ UNCHANGED <<pc, given, input, data, ps, rr, items>>

NextContext == CtxPush \/ CtxPop \/ CtxGet

SpecContext == InitContext /\ [][NextContext]_vars

Done == pc = "rendered"

(***************************************************************************)
(* C1: escaping                                                            *)
(***************************************************************************)
MaxStrLen == 3

EscapeAlphabet == {"&", "<", ">", "\"", "'", "a", "{"}

EscapeTemplates == {Tag(<<"x">>), Triple(<<"x">>), Tag(<<"&", "x">>), Tag(<<"&", " ", "x", " ">>)}

InitEscape ==
    \E t \in EscapeTemplates, s \in StringsUpTo(EscapeAlphabet, MaxStrLen) :
        InitWith(<<>>, t, Obj1(<<"x">>, DString(s)))

SpecEscape == InitEscape /\ [][NextRender]_vars

\* the replacement the specification of escape gives for one character
Entity(ch) ==
    IF ch = "&" THEN <<"&", "a", "m", "p", ";">>
    ELSE IF ch = "<" THEN <<"&", "l", "t", ";">>
    ELSE IF ch = ">" THEN <<"&", "g", "t", ";">>
    ELSE IF ch = "\"" THEN <<"&", "q", "u", "o", "t", ";">>
    ELSE IF ch = "'" THEN <<"&", "a", "p", "o", "s", ";">>
    ELSE <<ch>>

\* s with every character replaced by its entity, built from the right
RECURSIVE Escaped(_)
Escaped(s) ==
    IF Len(s) = 0 THEN <<>>
    ELSE Escaped(SubSeq(s, 1, Len(s) - 1)) \o Entity(s[Len(s)])

\* the string bound to x in the data of the run
BoundString == data.obj[1][2].str

\* C1: with data {x: s}, "{{x}}" renders escape(s): each of & < > " ' replaced
\* by its entity, everything else unchanged; "{{{x}}}" and "{{&x}}" render s.
C1_Escaping ==
    Done =>
        /\ isValid(rr.errorMessage)
        /\ input = Tag(<<"x">>) => rr.out = Escaped(BoundString)
        /\ input # Tag(<<"x">>) => rr.out = BoundString

C1_Witness ==
    /\ Done
    /\ input = Tag(<<"x">>)
    /\ BoundString = <<"'", "a", "&">>
    /\ rr.out = <<"&", "a", "p", "o", "s", ";", "a", "&", "a", "m", "p", ";">>

(***************************************************************************)
(* C3: dotted names                                                        *)
(***************************************************************************)
\* what frame f gives after the first k of segs: absent as soon as one
\* segment is not a key of the object reached
RECURSIVE Reached(_, _, _)
Reached(f, segs, k) ==
    IF k = 0 THEN f
    ELSE LET before == Reached(f, segs, k - 1)
         IN  IF before = nullptr \/ before.type # "Object" THEN nullptr
             ELSE IF \E i \in 1..Len(before.obj) : before.obj[i][1] = segs[k]
             THEN before.obj[CHOOSE i \in 1..Len(before.obj) : before.obj[i][1] = segs[k]][2]
             ELSE nullptr

\* the frames (1 is the innermost) in which every segment resolves
ResolvingFrames(its, segs) ==
    {i \in 1..Len(its) : Reached(its[i], segs, Len(segs)) # nullptr}

Innermost(S) == CHOOSE i \in S : \A j \in S : i <= j

\* C3: Context.get of a dotted name returns what all its segments reach in the
\* innermost frame in which every segment resolves, each frame walked from the
\* first segment, and is absent only when no frame resolves them all.
C3_DottedLookup ==
    \A segs \in SegmentLists :
        (pc = "context" /\ qname = Join(segs)) =>
            IF ResolvingFrames(items, segs) = {} THEN qres = nullptr
            ELSE qres = Reached(items[Innermost(ResolvingFrames(items, segs))],
                                segs, Len(segs))

\* the innermost frame resolves "a" but not "a.b"; the next frame out does
C3_Witness ==
    /\ pc = "context"
    /\ qname = <<"a", ".", "b">>
    /\ Len(items) >= 2
    /\ items[1] = Obj1(a, Str1("x"))
    /\ items[2] = Obj1(a, Obj1(b, Str1("1")))
    /\ qres = Str1("1")

(***************************************************************************)
(* C2: sections and inverted sections                                      *)
(***************************************************************************)
MaxListLen == 2

n == <<"n">>

o == <<"o">>

ListElements == {Str1("1"), Str1("<"), Obj1(n, Str1("3"))}

\* what b is bound to; nullptr stands for no binding
SectionValues ==
    {nullptr, DFalse, DTrue, DList(<<>>), Str1("s"), Obj1(n, Str1("o")),
     DPartial(<<"p">>), DInvalid}
    \cup {DList(l) : l \in UNION {[1..k -> ListElements] : k \in 1..MaxListLen}}

SectionBody == <<PText(<<"[">>), PVar(<<".">>), PVar(n), PText(<<"]">>)>>

\* A{{#b}}[{{.}}{{n}}]{{/b}}Z, or the same with ^
SectionPieces(sigil) ==
    <<PText(<<"A">>), PTag(sigil, b)>> \o SectionBody \o <<PTag("/", b), PText(<<"Z">>)>>

\* the same inside {{#o}}...{{/o}}, o an object that does not bind b
NestedPieces(sigil) == <<PTag("#", o)>> \o SectionPieces(sigil) \o <<PTag("/", o)>>

SectionData(v) ==
    IF v = nullptr THEN Obj2(n, Str1("N"), o, Obj1(c, Str1("O")))
    ELSE Obj3(n, Str1("N"), o, Obj1(c, Str1("O")), b, v)

InitSection ==
    \E sigil \in {"#", "^"}, v \in SectionValues :
        \E g \in {SectionPieces(sigil), NestedPieces(sigil)} :
            InitWith(g, Flatten(g), SectionData(v))

SpecSection == InitSection /\ [][NextRender]_vars

IsTagOfB(e) == e.ev \in {"SectionBegin", "SectionBeginInverted"} /\ e.text = b

IsBodyWalkOfB(e) == e.ev = "walkChildren" /\ e.text = b

\* the sigil of the section b of the input
SigilOfB == (CHOOSE i \in 1..Len(given) : given[i].name = b /\ given[i].kind \in {"#", "^"})

\* what name resolves to in the stack st (nullptr: to nothing)
Resolved(st, name) ==
    IF ResolvingFrames(st, <<name>>) = {} THEN nullptr
    ELSE Reached(st[Innermost(ResolvingFrames(st, <<name>>))], <<name>>, 1)

Falsy(v) == v = nullptr \/ v.type = "False" \/ (v.type = "List" /\ v.list = <<>>)

\* what the body [{{.}}{{n}}] writes under the stack st
BodyOut(st) ==
    <<"[">> \o (IF st[1].type = "String" THEN Escaped(st[1].str) ELSE <<>>)
            \o Escaped(Resolved(st, n).str) \o <<"]">>

RECURSIVE BodiesOut(_)
BodiesOut(walks) ==
    IF walks = <<>> THEN <<>> ELSE BodyOut(Head(walks).items) \o BodiesOut(Tail(walks))

\* C2: for a name resolving to no Lambda, {{#b}} walks its body not at all when
\* b is absent, False or an empty List, once per element in order with the
\* element innermost when b is a non-empty List, once with the value innermost
\* otherwise; {{^b}} walks it once when b is absent, False or an empty List and
\* not at all otherwise.
C2_Sections ==
    Done =>
        LET walks == SelectSeq(rr.log, IsBodyWalkOfB)
            tags == SelectSeq(rr.log, IsTagOfB)
            st == tags[1].items
            v == Resolved(st, b)
        IN  /\ Len(tags) = 1
            /\ isValid(rr.errorMessage)
            /\ given[SigilOfB].kind = "#" =>
                 IF Falsy(v) THEN walks = <<>>
                 ELSE IF v.type = "List"
                 THEN /\ Len(walks) = Len(v.list)
                      /\ \A i \in 1..Len(walks) : walks[i].items = <<v.list[i]>> \o st
                 ELSE /\ Len(walks) = 1
                      /\ walks[1].items = <<v>> \o st
            /\ given[SigilOfB].kind = "^" => Len(walks) = (IF Falsy(v) THEN 1 ELSE 0)
            /\ rr.out = <<"A">> \o BodiesOut(walks) \o <<"Z">>

\* a list of two: the body is written for "1" and for {n: "3"}, in that order
C2_Witness ==
    /\ Done
    /\ given = NestedPieces("#")
    /\ data = SectionData(DList(<<Str1("1"), Obj1(n, Str1("3"))>>))
    /\ rr.out = <<"A", "[", "1", "N", "]", "[", "3", "]", "Z">>

(***************************************************************************)
(* C4: rendering a template whose parse failed                             *)
(***************************************************************************)
MaxErrorPieces == 3

s == <<"s">>

\* a tag that is never closed
PUnclosedTag == [kind |-> "unclosed", name |-> <<>>, src |-> <<"{", "{", "u">>]

\* a set-delimiter tag with no space in it
PBadSetDelimiter == [kind |-> "badset", name |-> <<>>, src |-> Tag(<<"=", "x", "=">>)]

ErrorPieces ==
    {PText(<<"x">>), PVar(a), PTag("#", s), PTag("/", s), PUnclosedTag, PBadSetDelimiter}

InitError ==
    \E g \in UNION {[1..k -> ErrorPieces] : k \in 1..MaxErrorPieces} :
        InitWith(g, Flatten(g), Obj2(a, Str1("v"), s, DTrue))

SpecError == InitError /\ [][NextRender]_vars

\* C4: when parse left an error message, render writes nothing.
C4_ParseErrorPreventsRender ==
    (Done /\ ~isValid(ps.errorMessage)) => rr.out = <<>>

(***************************************************************************)
(* C5: a partial or a lambda result that fails                             *)
(***************************************************************************)
MaxItems == 2

p == <<"p">>

q == <<"q">>

lam == <<"lam">>

xs == <<"xs">>

\* the sources bound to p and returned by lam, each with the errorMessage of
\* the template made from it (q is bound to a partial with an unclosed tag)
SubSources ==
    {[src |-> <<"{", "{", "u">>, err |-> MkError("Unclosed tag", <<>>, 0)],
     [src |-> <<"k">> \o Tag(<<"/", "q">>), err |-> MkError("Unopened section", q, 1)],
     [src |-> Tag(<<"#", "q">>), err |-> MkError("Unclosed section", q, 0)],
     [src |-> Tag(<<"=", "x", "=">>), err |-> MkError("Invalid set delimiter tag", <<>>, 0)],
     [src |-> Tag(<<">", "q">>), err |-> MkError("Unclosed tag", <<>>, 0)],
     [src |-> <<"k">>, err |-> NoError]}

\* the tag that fails: {{>p}}, or {{#lam}}t{{/lam}}
FailingPieces(kind) ==
    IF kind = ">" THEN <<PTag(">", p)>>
    ELSE <<PTag("#", lam), PText(<<"t">>), PTag("/", lam)>>

\* the tag at the top level, in a section, in a list section, in an inverted one
SubPieces(where, kind) ==
    CASE where = "top" ->
           <<PText(<<"A">>)>> \o FailingPieces(kind) \o <<PText(<<"B">>)>>
      [] where = "section" ->
           <<PText(<<"A">>), PTag("#", s), PText(<<"b">>)>> \o FailingPieces(kind)
           \o <<PText(<<"c">>), PTag("/", s), PText(<<"D">>)>>
      [] where = "list" ->
           <<PText(<<"A">>), PTag("#", xs), PText(<<"[">>), PVar(<<".">>)>>
           \o FailingPieces(kind)
           \o <<PText(<<"c">>), PTag("/", xs), PText(<<"D">>)>>
      [] where = "inverted" ->
           <<PText(<<"A">>), PTag("^", n), PText(<<"b">>)>> \o FailingPieces(kind)
           \o <<PText(<<"c">>), PTag("/", n), PText(<<"D">>)>>

SubData(src, k) ==
    DObject(<< <<s, DTrue>>,
               <<xs, DList([i \in 1..k |-> Str1("i")])>>,
               <<p, DPartial(src)>>,
               <<lam, DLambda(src, FALSE)>>,
               <<q, DPartial(<<"{", "{", "u">>)>> >>)

InitSub ==
    \E where \in {"top", "section", "list", "inverted"}, kind \in {">", "#"},
       sub \in SubSources, k \in 1..MaxItems :
        InitWith(SubPieces(where, kind), Flatten(SubPieces(where, kind)), SubData(sub.src, k))

SpecSub == InitSub /\ [][NextRender]_vars

\* the source bound to p (and returned by lam) in the run
SubSourceOfRun == CHOOSE sub \in SubSources : sub.src = data.obj[3][2].str

IsFailingPiece(piece) == piece.kind = ">" \/ (piece.kind = "#" /\ piece.name = lam)

\* what the pieces before the failing tag write (the first time round a list)
RECURSIVE OutBefore(_)
OutBefore(pieces) ==
    IF IsFailingPiece(Head(pieces)) THEN <<>>
    ELSE (CASE Head(pieces).kind = "text" -> Head(pieces).src
            [] Head(pieces).kind = "var" -> <<"i">>
            [] OTHER -> <<>>) \o OutBefore(Tail(pieces))

\* C5: when the partial's source or the lambda's result fails, the outer
\* errorMessage is the sub-template's and nothing after the failing tag is
\* written, wherever the tag sits.
C5_SubTemplateErrorHalts ==
    (Done /\ ~isValid(SubSourceOfRun.err)) =>
        /\ rr.errorMessage = SubSourceOfRun.err
        /\ rr.out = OutBefore(given)

\* what holds of the code: the message is taken over, and the render halts
\* when the failing tag is at the top level of the template
C5_HaltsAtTopLevel ==
    (Done /\ ~isValid(SubSourceOfRun.err)) =>
        /\ rr.errorMessage = SubSourceOfRun.err
        /\ IsFailingPiece(given[2]) => rr.out = OutBefore(given)

(***************************************************************************)
(* C6, C8: nesting of sections, and the text of a section                  *)
(***************************************************************************)
MaxNestPieces == 5

\* {{/ b }}: an end tag whose name is b once trimmed
PEndSpaced(name) ==
    [kind |-> "/", name |-> name, src |-> Tag(<<"/", " ">> \o name \o <<" ">>)]

NestPieces ==
    {PTag("#", a), PTag("^", b), PTag("/", a), PEndSpaced(b), PText(<<" ", "t">>)}

\* a is a Lambda, b is not bound
NestData == Obj1(a, DLambda(<<"L">>, FALSE))

InitNest ==
    \E g \in UNION {[1..k -> NestPieces] : k \in 0..MaxNestPieces} :
        InitWith(g, Flatten(g), NestData)

SpecNest == InitNest /\ [][NextRender]_vars

IsBegin(piece) == piece.kind \in {"#", "^"}

IsEnd(piece) == piece.kind = "/"

\* the offset in the input of piece i
OffsetOf(pieces, i) == Len(Flatten(SubSeq(pieces, 1, i - 1)))

\* properly nested with equal names: every end tag closes the section opened
\* last, under the same name, and none stays open (open: the names open now)
RECURSIVE NestedFrom(_, _, _)
NestedFrom(pieces, i, open) ==
    IF i > Len(pieces) THEN open = <<>>
    ELSE IF IsBegin(pieces[i]) THEN NestedFrom(pieces, i + 1, Append(open, pieces[i].name))
    ELSE IF IsEnd(pieces[i])
    THEN /\ open # <<>>
         /\ open[Len(open)] = pieces[i].name
         /\ NestedFrom(pieces, i + 1, SubSeq(open, 1, Len(open) - 1))
    ELSE NestedFrom(pieces, i + 1, open)

ProperlyNested(pieces) == NestedFrom(pieces, 1, <<>>)

\* which end tag closes which begin tag, names aside: [unopened, pairs], the
\* first end tag met with no section open (0: none) and the <<begin, end>>
\* pairs made until then
RECURSIVE MatchFrom(_, _, _, _)
MatchFrom(pieces, i, open, pairs) ==
    IF i > Len(pieces) THEN [unopened |-> 0, pairs |-> pairs]
    ELSE IF IsBegin(pieces[i]) THEN MatchFrom(pieces, i + 1, Append(open, i), pairs)
    ELSE IF IsEnd(pieces[i])
    THEN IF open = <<>> THEN [unopened |-> i, pairs |-> pairs]
         ELSE MatchFrom(pieces, i + 1, SubSeq(open, 1, Len(open) - 1),
                        pairs \cup {<<open[Len(open)], i>>})
    ELSE MatchFrom(pieces, i + 1, open, pairs)

Matching(pieces) == MatchFrom(pieces, 1, <<>>, {})

\* the begin tags never closed or closed under another name
BadlyClosed(pieces) ==
    {i \in 1..Len(pieces) :
        /\ IsBegin(pieces[i])
        /\ ~\E j \in 1..Len(pieces) :
              <<i, j>> \in Matching(pieces).pairs /\ pieces[j].name = pieces[i].name}

\* the message the claim gives
NestError(pieces) ==
    IF Matching(pieces).unopened # 0
    THEN MkError("Unopened section", pieces[Matching(pieces).unopened].name,
                 OffsetOf(pieces, Matching(pieces).unopened))
    ELSE IF BadlyClosed(pieces) # {}
    THEN MkError("Unclosed section", pieces[Innermost(BadlyClosed(pieces))].name,
                 OffsetOf(pieces, Innermost(BadlyClosed(pieces))))
    ELSE NoError

\* C6: with every tag closed, parse leaves errorMessage empty exactly when the
\* section tags are properly nested under equal trimmed names; otherwise the
\* message names the first end tag met with no section open, or else the first
\* begin tag never closed or closed under another name, and its offset.
C6_SectionNesting ==
    ps.state = "done" =>
        /\ isValid(ps.errorMessage) <=> ProperlyNested(given)
        /\ ps.errorMessage = NestError(given)

\* {{#a}}{{^b}}{{/a}}{{/ b }}: every tag has a partner, a is closed by /b
C6_Witness ==
    /\ ps.state = "done"
    /\ given = <<PTag("#", a), PTag("^", b), PTag("/", a), PEndSpaced(b)>>
    /\ ps.errorMessage = MkError("Unclosed section", a, 0)

\* the sections of the tree under comp: <<position, hasSectionText, sectionText>>
RECURSIVE SectionsUnder(_)
SectionsUnder(comp) ==
    UNION {(IF isSectionBegin(comp.children[i].tag)
            THEN {<<comp.children[i].position, comp.children[i].tag.hasSectionText,
                    comp.children[i].tag.sectionText>>}
            ELSE {}) \cup SectionsUnder(comp.children[i]) : i \in 1..Len(comp.children)}

\* the source between begin tag i and end tag j
TextBetween(pieces, i, j) == Flatten(SubSeq(pieces, i + 1, j - 1))

\* the source text of the section whose begin tag is at offset pos
SectionSourceAt(pieces, pos) ==
    LET pair == CHOOSE pr \in Matching(pieces).pairs : OffsetOf(pieces, pr[1]) = pos
    IN  TextBetween(pieces, pair[1], pair[2])

\* C8: after a successful parse every section holds, as sectionText, the input
\* from just after its begin tag up to its end tag, untrimmed; and a Lambda
\* bound to the section's name is called with that string.
C8_SectionText ==
    (ps.state = "done" /\ isValid(ps.errorMessage)) =>
        /\ SectionsUnder(ps.rootComponent) =
             {<<OffsetOf(given, pr[1]), TRUE, TextBetween(given, pr[1], pr[2])>> :
                 pr \in Matching(given).pairs}
        /\ Done =>
             \A k \in 1..Len(rr.log) :
                 (rr.log[k].ev = "SectionBegin" /\ rr.log[k].text = a) =>
                     /\ k < Len(rr.log)
                     /\ rr.log[k + 1].ev = "callLambda"
                     /\ rr.log[k + 1].text = SectionSourceAt(given, rr.log[k].position)

\* {{^b}}{{#a}} t{{/a}}{{/ b }}: the lambda of the inner section is given " t"
C8_Witness ==
    /\ Done
    /\ given = <<PTag("^", b), PTag("#", a), PText(<<" ", "t">>), PTag("/", a)>>
                \o <<PEndSpaced(b)>>
    /\ \E k \in 1..Len(rr.log) :
          rr.log[k].ev = "callLambda" /\ rr.log[k].text = <<" ", "t">>
    /\ rr.out = <<"L">>

(***************************************************************************)
(* C7: the delimiters after a set-delimiter tag                            *)
(***************************************************************************)
MaxDelimPieces == 4

x == <<"x">>

\* <% %> and {{ ]] (whose begin is the default begin), and the default pair
AnglePair == [begin |-> <<"<", "%">>, end |-> <<"%", ">">>]

BracePair == [begin |-> <<"{", "{">>, end |-> <<"]", "]">>]

DelimPairs == {AnglePair, BracePair, DefaultDelimiterSet}

\* what an input is made of here: a tag {{x}} written in the delimiters in
\* force, "{{x}}", "{{{x}}}", or a set-delimiter tag installing a pair
DelimItems ==
    {[item |-> "tag", pair |-> NullDelimiterSet],
     [item |-> "{{x}}", pair |-> NullDelimiterSet],
     [item |-> "{{{x}}}", pair |-> NullDelimiterSet]}
    \cup {[item |-> "set", pair |-> d] : d \in DelimPairs}

\* the piece for one item, cur the delimiters in force where it stands
DelimPiece(it, cur) ==
    [kind |-> it.item, name |-> x, cur |-> cur,
     src |-> CASE it.item = "tag" -> TagIn(cur, x)
               [] it.item = "{{x}}" -> Tag(x)
               [] it.item = "{{{x}}}" -> Triple(x)
               [] it.item = "set" ->
                    TagIn(cur, <<"=">> \o it.pair.begin \o <<" ">> \o it.pair.end \o <<"=">>)]

RECURSIVE DelimPieces(_, _)
DelimPieces(its, cur) ==
    IF its = <<>> THEN <<>>
    ELSE <<DelimPiece(Head(its), cur)>>
         \o DelimPieces(Tail(its), IF Head(its).item = "set" THEN Head(its).pair ELSE cur)

DelimData == Obj1(x, Str1("<"))

InitDelim ==
    \E its \in UNION {[1..k -> DelimItems] : k \in 1..MaxDelimPieces} :
        InitWith(DelimPieces(its, DefaultDelimiterSet),
                 Flatten(DelimPieces(its, DefaultDelimiterSet)), DelimData)

SpecDelim == InitDelim /\ [][NextRender]_vars

\* what the claim has a piece write, x being "<": a tag in the delimiters in
\* force writes x escaped; "{{x}}" and "{{{x}}}" are tags (the second
\* unescaped) under the default pair and literal text under any other
PieceOut(piece) ==
    CASE piece.kind = "set" -> <<>>
      [] piece.kind = "tag" -> <<"&", "l", "t", ";">>
      [] piece.kind = "{{x}}" ->
           IF piece.cur = DefaultDelimiterSet THEN <<"&", "l", "t", ";">> ELSE piece.src
      [] piece.kind = "{{{x}}}" ->
           IF piece.cur = DefaultDelimiterSet THEN <<"<">> ELSE piece.src

RECURSIVE PiecesOut(_)
PiecesOut(pieces) ==
    IF pieces = <<>> THEN <<>> ELSE PieceOut(Head(pieces)) \o PiecesOut(Tail(pieces))

\* no "{{x}}" or "{{{x}}}" standing under a non-default pair contains the
\* begin delimiter of that pair
BraceFormsClearOfBegin(pieces) ==
    \A i \in 1..Len(pieces) :
        (pieces[i].kind \in {"{{x}}", "{{{x}}}"} /\ pieces[i].cur # DefaultDelimiterSet)
            => Find(pieces[i].src, pieces[i].cur.begin, 0) = npos

\* every set-delimiter tag is a valid one: its end delimiter first occurs
\* where the tag was written to end
SetTagsValid(pieces) ==
    \A i \in 1..Len(pieces) :
        pieces[i].kind = "set"
            => Find(pieces[i].src, pieces[i].cur.end, Len(pieces[i].cur.begin))
                   = Len(pieces[i].src) - Len(pieces[i].cur.end)

\* C7 as stated: under an installed non-default pair (b, e) tags are b...e
\* only, every "{{...}}" is literal text and "{{{...}}}" is not recognised,
\* until a set-delimiter tag restores the default pair.
C7_AsStated ==
    (Done /\ SetTagsValid(given)) => (isValid(rr.errorMessage) /\ rr.out = PiecesOut(given))

\* C7 amended: the same, for the "{{...}}" and "{{{...}}}" that contain no
\* occurrence of b.
C7_Delimiters ==
    (Done /\ SetTagsValid(given) /\ BraceFormsClearOfBegin(given)) =>
        (isValid(rr.errorMessage) /\ rr.out = PiecesOut(given))

\* {{=<% %>=}}{{{x}}}<%={{ }}=%>{{{x}}}: literal at first, a tag once restored
C7_Witness ==
    /\ Done
    /\ Len(given) = 4
    /\ given[1].kind = "set" /\ given[2].cur = AnglePair /\ given[2].kind = "{{{x}}}"
    /\ given[3].kind = "set" /\ given[4].cur = DefaultDelimiterSet
    /\ given[4].kind = "{{{x}}}"
    /\ rr.out = <<"{", "{", "{", "x", "}", "}", "}", "<">>

(***************************************************************************)
(* C9: the delimiters a lambda's result is parsed with                     *)
(***************************************************************************)
f == <<"f">>

lam2 == <<"lam2">>

\* pieces written in the delimiters d, which are those in force where they stand
PTextIn(d, t) == [kind |-> "text", name |-> <<>>, src |-> t, cur |-> d]

PTagIn(d, sigil, name) ==
    [kind |-> sigil, name |-> name, src |-> TagIn(d, <<sigil>> \o name), cur |-> d]

PSetIn(d, new) ==
    [kind |-> "=", name |-> <<>>, cur |-> d,
     src |-> TagIn(d, <<"=">> \o new.begin \o <<" ">> \o new.end \o <<"=">>)]

\* the lambda section, written in d
LambdaPieces(d) == <<PTagIn(d, "#", lam), PTextIn(d, <<"t">>), PTagIn(d, "/", lam)>>

\* {{=<% %>=}}, the source of the partial p and the result of lam2
SetAngleSource == PSetIn(DefaultDelimiterSet, AnglePair).src

\* the lambda section: alone; after a set-delimiter tag; after a section whose
\* body holds the set-delimiter tag; in a list section whose body ends with
\* one; after a partial and after a lambda whose source holds one
LambdaTemplates ==
    [plain |-> <<PTextIn(DefaultDelimiterSet, <<"A">>)>> \o LambdaPieces(DefaultDelimiterSet),
     setBefore |-> <<PSetIn(DefaultDelimiterSet, AnglePair)>> \o LambdaPieces(AnglePair),
     inSection |-> <<PTagIn(DefaultDelimiterSet, "#", f),
                     PSetIn(DefaultDelimiterSet, AnglePair),
                     PTagIn(AnglePair, "/", f)>> \o LambdaPieces(AnglePair),
     inList |-> <<PTagIn(DefaultDelimiterSet, "#", xs)>> \o LambdaPieces(DefaultDelimiterSet)
                \o <<PSetIn(DefaultDelimiterSet, AnglePair), PTagIn(AnglePair, "/", xs)>>,
     afterPartial |-> <<PTagIn(DefaultDelimiterSet, ">", p)>>
                      \o LambdaPieces(DefaultDelimiterSet),
     afterLambda |-> <<PTagIn(DefaultDelimiterSet, "#", lam2),
                       PTagIn(DefaultDelimiterSet, "/", lam2)>>
                     \o LambdaPieces(DefaultDelimiterSet)]

\* what lam returns (before the section text, when it echoes it)
LambdaResults == {Tag(x), TagIn(AnglePair, x), <<"k">>}

\* f bound to fv, or unbound when fv is Invalid
LambdaData(fv, k, res, echo) ==
    DObject((IF fv = DInvalid THEN <<>> ELSE << <<f, fv>> >>)
            \o << <<xs, DList([i \in 1..k |-> Str1("i")])>>,
                  <<p, DPartial(SetAngleSource)>>,
                  <<lam, DLambda(res, echo)>>,
                  <<lam2, DLambda(SetAngleSource, FALSE)>>,
                  <<x, Str1("X")>> >>)

InitLambda ==
    \E t \in DOMAIN LambdaTemplates, fv \in {DFalse, DTrue, DInvalid}, k \in 1..MaxItems,
       res \in LambdaResults, echo \in BOOLEAN :
        InitWith(LambdaTemplates[t], Flatten(LambdaTemplates[t]), LambdaData(fv, k, res, echo))

SpecLambda == InitLambda /\ [][NextRender]_vars

\* the piece of given that starts at offset pos of the input
PieceAt(pos) == given[CHOOSE i \in 1..Len(given) : OffsetOf(given, i) = pos]

\* C9: each time a section tag resolves to a Lambda, the lambda's result is
\* parsed with the delimiters in force in the source at that tag, whatever
\* was rendered or skipped before it.
C9_LambdaDelimiters ==
    Done => \A k \in 2..Len(rr.log) :
                (rr.log[k].ev = "callLambda" /\ rr.log[k - 1].ev = "SectionBegin")
                    => rr.log[k].delimiterSet = PieceAt(rr.log[k - 1].position).cur

\* what holds of the code: the lambda's result is parsed with the delimiters
\* in force in the source when every set-delimiter tag before the section
\* has been walked once and nothing else has set the delimiters
C9_InSourceOrder ==
    (Done /\ (given = LambdaTemplates.plain \/ given = LambdaTemplates.setBefore)) =>
        \E k \in 2..Len(rr.log) :
            /\ rr.log[k].ev = "callLambda" /\ rr.log[k - 1].ev = "SectionBegin"
            /\ rr.log[k].delimiterSet = PieceAt(rr.log[k - 1].position).cur

(***************************************************************************)
(* C10: partial tags                                                       *)
(***************************************************************************)
\* the key "s.p", which holds a dot
sp == s \o <<".">> \o p

\* the sources of the partials, each with what it writes when x resolves to
\* the string v: [{{x}}], <%x%> (no tag under the default delimiters), k
PartialSources ==
    {[src |-> <<"[">> \o Tag(x) \o <<"]">>, value |-> TRUE, pre |-> <<"[">>, post |-> <<"]">>],
     [src |-> TagIn(AnglePair, x), value |-> FALSE, pre |-> TagIn(AnglePair, x), post |-> <<>>],
     [src |-> <<"k">>, value |-> FALSE, pre |-> <<"k">>, post |-> <<>>]}

\* what p is bound to in a frame: nothing (Invalid here), a String, a Partial
PartialBindings == {DInvalid, Str1("v")} \cup {DPartial(ps0.src) : ps0 \in PartialSources}

\* {{>p}} at the top level, in the section of the object s, under the
\* delimiters <% %>, and {{>s.p}}
PartialTemplates ==
    [top |-> <<PTextIn(DefaultDelimiterSet, <<"A">>), PTagIn(DefaultDelimiterSet, ">", p),
               PTextIn(DefaultDelimiterSet, <<"Z">>)>>,
     section |-> <<PTextIn(DefaultDelimiterSet, <<"A">>), PTagIn(DefaultDelimiterSet, "#", s),
                   PTagIn(DefaultDelimiterSet, ">", p), PTagIn(DefaultDelimiterSet, "/", s),
                   PTextIn(DefaultDelimiterSet, <<"Z">>)>>,
     custom |-> <<PSetIn(DefaultDelimiterSet, AnglePair), PTextIn(AnglePair, <<"A">>),
                  PTagIn(AnglePair, ">", p), PTextIn(AnglePair, <<"Z">>)>>,
     dotted |-> <<PTextIn(DefaultDelimiterSet, <<"A">>), PTagIn(DefaultDelimiterSet, ">", sp),
                  PTextIn(DefaultDelimiterSet, <<"Z">>)>>]

Bound(name, v) == IF v = DInvalid THEN <<>> ELSE << <<name, v>> >>

\* {x: "z", p: outer, s: {x: "y", p: inner}, "s.p": whole}
PartialData(outer, inner, whole) ==
    DObject(<< <<x, Str1("z")>> >> \o Bound(p, outer)
            \o << <<s, DObject(<< <<x, Str1("y")>> >> \o Bound(p, inner))>> >>
            \o Bound(sp, whole))

InitPartial ==
    \E t \in DOMAIN PartialTemplates, outer \in PartialBindings, inner \in PartialBindings,
       whole \in {DInvalid, DPartial(<<"k">>)} :
        InitWith(PartialTemplates[t], Flatten(PartialTemplates[t]),
                 PartialData(outer, inner, whole))

SpecPartial == InitPartial /\ [][NextRender]_vars

\* the partial tag of the run and the context stack where it stands
PartialTagOfRun == given[CHOOSE i \in 1..Len(given) : given[i].kind = ">"]

StackAtPartial ==
    IF given = PartialTemplates.section THEN <<DataGet(data, s), data>> ELSE <<data>>

\* what the source of a partial writes under the stack st
PartialOut(src, st) ==
    LET ps0 == CHOOSE ps1 \in PartialSources : ps1.src = src
    IN  ps0.pre \o (IF ps0.value THEN Resolved(st, x).str \o ps0.post ELSE <<>>)

\* what the partial tag writes by the claim: the source of the first binding
\* of its name, taken as one key, when that is a Partial; else nothing
PartialTagOut ==
    IF Resolved(StackAtPartial, PartialTagOfRun.name) # nullptr
       /\ Resolved(StackAtPartial, PartialTagOfRun.name).type = "Partial"
    THEN PartialOut(Resolved(StackAtPartial, PartialTagOfRun.name).str, StackAtPartial)
    ELSE <<>>

\* C10: {{>p}} takes the first frame, innermost first, that binds the one key
\* p; a Partial there is parsed with the default delimiters and rendered in
\* place under the current stack; unbound or not a Partial, nothing is
\* written and no error is set.
C10_Partials ==
    Done => /\ rr.out = <<"A">> \o PartialTagOut \o <<"Z">>
            /\ isValid(rr.errorMessage)
            /\ rr.items = <<data>>

\* p = [{{x}}] with {x: "z"} writes [z]
C10_Witness ==
    /\ Done
    /\ given = PartialTemplates.top
    /\ DataGet(data, p) = DPartial(<<"[">> \o Tag(x) \o <<"]">>)
    /\ rr.out = <<"A", "[", "z", "]", "Z">>

(***************************************************************************)
(* C11: the frames under the body of an inverted section                   *)
(***************************************************************************)
dot == <<".">>

\* the bodies of {{^b}}: [{{.}}{{n}}], {{#.}}X{{/.}}, {{^.}}Y{{/.}}
InvertedBodies ==
    {SectionBody,
     <<PTag("#", dot), PText(<<"X">>), PTag("/", dot)>>,
     <<PTag("^", dot), PText(<<"Y">>), PTag("/", dot)>>}

\* A{{^b}}body{{/b}}Z
InvertedPieces(body) ==
    <<PText(<<"A">>), PTag("^", b)>> \o body \o <<PTag("/", b), PText(<<"Z">>)>>

\* at the top level, or inside {{#o}}...{{/o}}
InitInverted ==
    \E body \in InvertedBodies, v \in SectionValues, inO \in BOOLEAN :
        LET g == IF inO THEN <<PTag("#", o)>> \o InvertedPieces(body) \o <<PTag("/", o)>>
                 ELSE InvertedPieces(body)
        IN  InitWith(g, Flatten(g), SectionData(v))

SpecInverted == InitInverted /\ [][NextRender]_vars

\* C11: while the body of an inverted section is rendered the frame stack is
\* the stack at the inverted-section tag, whether the name was absent, False
\* or an empty List.
C11_InvertedPushesNoFrame ==
    Done => \A i \in 1..Len(rr.log), j \in 1..Len(rr.log) :
                (rr.log[i].ev = "SectionBeginInverted" /\ rr.log[i].text = b
                 /\ IsBodyWalkOfB(rr.log[j]))
                    => rr.log[j].items = rr.log[i].items

\* what holds of the code: the body is walked under the stack at the tag when
\* the name is absent, and with the False or the empty List on top of it
\* otherwise
C11_InvertedFrames ==
    Done => \A i \in 1..Len(rr.log), j \in 1..Len(rr.log) :
                (rr.log[i].ev = "SectionBeginInverted" /\ rr.log[i].text = b
                 /\ IsBodyWalkOfB(rr.log[j]))
                    => rr.log[j].items =
                           (IF Resolved(rr.log[i].items, b) = nullptr THEN rr.log[i].items
                            ELSE <<Resolved(rr.log[i].items, b)>> \o rr.log[i].items)

(***************************************************************************)
(* C12: the frames before and after sections, partials and lambdas         *)
(***************************************************************************)
here == <<"here">>

\* {{#here}}{{/here}}, here unbound: writes nothing, and the render records
\* the frames where it stands; under names the section around it
ProbePieces(under) ==
    <<[kind |-> "#", name |-> here, src |-> Tag(<<"#">> \o here), under |-> under],
      [kind |-> "/", name |-> here, src |-> Tag(<<"/">> \o here), under |-> under]>>

Piece(piece, under) ==
    [kind |-> piece.kind, name |-> piece.name, src |-> piece.src, under |-> under]

\* {{>p}}, {{#lam}}t{{/lam}} or {{lam}}
Construct(kind, under) ==
    CASE kind = ">" -> <<Piece(PTag(">", p), under)>>
      [] kind = "#" -> <<Piece(PTag("#", lam), under), Piece(PText(<<"t">>), under),
                         Piece(PTag("/", lam), under)>>
      [] kind = "var" -> <<Piece(PVar(lam), under)>>

\* the construct between two probes, at the top level or in the body of a
\* section, itself between two probes
BalancePieces(sigil, name, kind) ==
    IF sigil = "" THEN ProbePieces(<<>>) \o Construct(kind, <<>>) \o ProbePieces(<<>>)
    ELSE ProbePieces(<<>>) \o <<Piece(PTag(sigil, name), <<>>)>>
         \o ProbePieces(name) \o Construct(kind, name) \o ProbePieces(name)
         \o <<Piece(PTag("/", name), <<>>)>> \o ProbePieces(<<>>)

\* the sources of C5, one failing inside a section of the sub-template and
\* one that pushes frames of its own
BalanceSources ==
    {sub.src : sub \in SubSources}
    \cup {Tag(<<"#">> \o s) \o Tag(<<">">> \o q) \o Tag(<<"/">> \o s),
          Tag(<<"#">> \o xs) \o Tag(<<".">>) \o Tag(<<"/">> \o xs)}

InitBalance ==
    \E sec \in {<<"", <<>>>>, <<"#", s>>, <<"#", xs>>, <<"^", n>>},
       kind \in {">", "#", "var"}, src \in BalanceSources, k \in 1..MaxItems :
        InitWith(BalancePieces(sec[1], sec[2], kind),
                 Flatten(BalancePieces(sec[1], sec[2], kind)), SubData(src, k))

SpecBalance == InitBalance /\ [][NextRender]_vars

IsProbe(e) == e.ev = "SectionBegin" /\ e.text = here

\* the frames at a probe standing under the section named under: those of
\* the render's start, below the True of s or an element of xs
FramesUnder(under) ==
    IF under = s THEN {<<DTrue, data>>}
    ELSE IF under = xs THEN {<<el, data>> : el \in {DataGet(data, xs).list[i] :
                                                     i \in 1..Len(DataGet(data, xs).list)}}
    ELSE {<<data>>}

\* C12: the frames after a section, a list iteration, a partial or a lambda
\* output are those before it, also when a sub-template error cut it short;
\* the stack is never empty, and is the root frame alone when render returns.
C12_FramesBalanced ==
    /\ Done => rr.items = <<data>>
    /\ \A k \in 1..Len(rr.log) :
           /\ rr.log[k].items # <<>>
           /\ IsProbe(rr.log[k]) => rr.log[k].items \in FramesUnder(PieceAt(rr.log[k].position).under)

\* a partial failing in the body of {{#s}}: the render goes on after the
\* section, where the root frame is alone again
C12_Witness ==
    /\ Done
    /\ given = BalancePieces("#", s, ">")
    /\ ~isValid(rr.errorMessage)
    /\ Len(SelectSeq(rr.log, IsProbe)) = 3
    /\ rr.log[Len(rr.log)].items = <<data>>
    /\ rr.log[Len(rr.log)].position = OffsetOf(given, Len(given) - 1)

(***************************************************************************)
(* C13: the delimiter set, and set-delimiter tags of any contents          *)
(***************************************************************************)
MaxContentsLen == 6

ContentsAlphabet == {"=", " ", "\t", "a"}

\* z{{contents}}{{x}}
ContentsPieces(contents) ==
    <<PText(<<"z">>), [kind |-> "tag", name |-> contents, src |-> Tag(contents)], PVar(x)>>

InitContents ==
    \E contents \in StringsUpTo(ContentsAlphabet, MaxContentsLen) :
        InitWith(ContentsPieces(contents), Flatten(ContentsPieces(contents)), DelimData)

SpecContents == InitContents /\ [][NextRender]_vars

\* non-empty, without whitespace and without "="
IsDelimiter(str) ==
    str # <<>> /\ \A i \in 1..Len(str) : str[i] # "=" /\ str[i] \notin WhiteSpace

DelimitersOK(d) == IsDelimiter(d.begin) /\ IsDelimiter(d.end)

\* str without the whitespace at its two ends
Stripped(str) ==
    IF \A i \in 1..Len(str) : str[i] \in WhiteSpace THEN <<>>
    ELSE SubSeq(str, CHOOSE i \in 1..Len(str) :
                         str[i] \notin WhiteSpace /\ \A h \in 1..(i - 1) : str[h] \in WhiteSpace,
                     CHOOSE j \in 1..Len(str) :
                         str[j] \notin WhiteSpace /\ \A h \in (j + 1)..Len(str) : str[h] \in WhiteSpace)

\* the contents of the tag of the run, as parse reads them
ContentsOfRun == Stripped(given[2].name)

\* tag is "=", whitespace, the begin tag[i..h], one or more spaces, the end
\* tag[l..j], whitespace, "=": the form "=<begin> <end>="
SetDelimiterFormAt(tag, i, h, l, j) ==
    /\ 1 < i /\ i <= h /\ h + 1 < l /\ l <= j /\ j < Len(tag)
    /\ tag[1] = "=" /\ tag[Len(tag)] = "="
    /\ \A g \in 2..(i - 1) : tag[g] \in WhiteSpace
    /\ IsDelimiter(SubSeq(tag, i, h))
    /\ \A g \in (h + 1)..(l - 1) : tag[g] = " "
    /\ IsDelimiter(SubSeq(tag, l, j))
    /\ \A g \in (j + 1)..(Len(tag) - 1) : tag[g] \in WhiteSpace

HasSetDelimiterForm(tag, begin, end) ==
    \E i \in 1..Len(tag), h \in 1..Len(tag), l \in 1..Len(tag), j \in 1..Len(tag) :
        /\ SetDelimiterFormAt(tag, i, h, l, j)
        /\ begin = SubSeq(tag, i, h) /\ end = SubSeq(tag, l, j)

WellFormedSetDelimiter(tag) ==
    \E i \in 1..Len(tag), h \in 1..Len(tag), l \in 1..Len(tag), j \in 1..Len(tag) :
        SetDelimiterFormAt(tag, i, h, l, j)

\* C13: the delimiter set of the parse and of the render always has a
\* non-empty begin and end without whitespace and "="; a set-delimiter tag
\* not of the form "=<begin> <end>=" leaves it unchanged and stops the parse
\* with 'Invalid set delimiter tag' at the tag's offset; the assert on the
\* character after the first space never fails.
C13_DelimiterSet ==
    /\ DelimitersOK(ps.delimiterSet) /\ DelimitersOK(rr.delimiterSet)
    /\ \A k \in 1..Len(rr.log) : DelimitersOK(rr.log[k].delimiterSet)
    /\ ps.state # "aborted"
    /\ (ps.state = "done" /\ ContentsOfRun # <<>> /\ ContentsOfRun[1] = "="
        /\ ~WellFormedSetDelimiter(ContentsOfRun))
           => /\ ps.errorMessage = MkError("Invalid set delimiter tag", <<>>, OffsetOf(given, 2))
              /\ ps.delimiterSet = DefaultDelimiterSet

\* {{=a =}}: no end after the space; the set stays {{ }}
C13_Witness ==
    /\ ps.state = "done"
    /\ given[2].name = <<"=", "a", " ", "=">>
    /\ ps.errorMessage = MkError("Invalid set delimiter tag", <<>>, 1)
    /\ ps.delimiterSet = DefaultDelimiterSet

\* a tag of the form installs its begin and end
C13_WellFormedInstalls ==
    (ps.state = "done" /\ ContentsOfRun # <<>> /\ ContentsOfRun[1] = "="
     /\ WellFormedSetDelimiter(ContentsOfRun))
        => /\ ps.delimiterSet # DefaultDelimiterSet
           /\ HasSetDelimiterForm(ContentsOfRun, ps.delimiterSet.begin, ps.delimiterSet.end)

(***************************************************************************)
(* C14: the stored tree after a successful parse                           *)
(***************************************************************************)
\* the components of the tree under comp, comp excluded
RECURSIVE ComponentsUnder(_)
ComponentsUnder(comp) ==
    UNION {{comp.children[i]} \cup ComponentsUnder(comp.children[i]) :
               i \in 1..Len(comp.children)}

\* C14: after a successful parse the stored tree holds no SectionEnd
\* component: the one closing each section has been removed from its children.
C14_NoSectionEndStored ==
    (ps.state = "done" /\ isValid(ps.errorMessage)) =>
        \A comp \in ComponentsUnder(ps.rootComponent) : ~isSectionEnd(comp.tag)

\* what holds of the code: the last child of every section of the stored
\* tree is still the SectionEnd that closed it
C14_SectionEndKept ==
    (ps.state = "done" /\ isValid(ps.errorMessage)) =>
        \A comp \in ComponentsUnder(ps.rootComponent) :
            isSectionBegin(comp.tag) =>
                /\ comp.children # <<>>
                /\ isSectionEnd(Back(comp.children).tag)
                /\ Back(comp.children).tag.name = comp.tag.name

(***************************************************************************)
(* C15: parse on any input, from any delimiter set                         *)
(***************************************************************************)
MaxTokens == 4

\* what the inputs are put together from
Tokens ==
    {<<"{", "{">>, <<"}", "}">>, <<"{">>, <<"}">>, <<"{", "{", "{">>, <<"a">>,
     Tag(<<"#", "a">>), Tag(<<"/", "a">>), Tag(<<"=", "{", " ", "}", "=">>)}

\* the delimiter sets parse starts from
StartDelimiterSets ==
    {DefaultDelimiterSet, [begin |-> <<"{">>, end |-> <<"}">>],
     [begin |-> <<"a">>, end |-> <<"}", "}">>]}

RECURSIVE Concat(_)
Concat(strs) == IF strs = <<>> THEN <<>> ELSE Head(strs) \o Concat(Tail(strs))

\* BasicMustache(input, ctx) entered, ctx holding the delimiter set d
InitScan ==
    \E toks \in StringsUpTo(Tokens, MaxTokens), d \in StartDelimiterSets :
        /\ pc = "parse"
        /\ given = toks
        /\ input = Concat(toks)
        /\ data = nullptr
        /\ ps = ParseInit(Concat(toks), d)
        /\ rr = RenderInit(<<>>, NoError)
        /\ items = <<>>
        /\ qname = <<>>
        /\ qres = nullptr

NextParse == Scan \/ Check

SpecScan == InitScan /\ [][NextParse]_vars

\* parse() is in its loop, in the check after it, or has returned: it has not
\* been ended by an assert or an exception; inputPosition is within the
\* input; one section more than section starts
ScanInvariant ==
    /\ ps.state \in {"scan", "walk", "done"}
    /\ ps.inputPosition >= 0 /\ ps.inputPosition <= Len(input)
    /\ Len(ps.sections) = Len(ps.sectionStarts) + 1

\* an iteration that does not leave the loop moves inputPosition forward, and
\* the check after the loop returns
ScanProgress ==
    /\ ps'.state = "scan" => ps'.inputPosition > ps.inputPosition
    /\ ps.state = "walk" => ps'.state = "done"

\* C15: parse terminates on every input from every delimiter set with
\* non-empty markers: an iteration of the scan loop ends the loop or
\* increases inputPosition, which never exceeds the input size (so at most
\* input-size iterations are made, each of them completing); the read for
\* the triple-mustache test is inside the input; the section stack holds one
\* entry more than the section-start stack.
C15_ParseTerminates == []ScanInvariant /\ [][ScanProgress]_vars

\* {{{a}}} read to its end as one tag, after the read at offset 2
C15_Witness ==
    /\ ps.state = "done"
    /\ given = <<<<"{", "{", "{">>, <<"a">>, <<"}", "}">>, <<"}">>>>
    /\ ps.inputPosition = 7
    /\ Len(ps.rootComponent.children) = 1
    /\ ps.rootComponent.children[1].tag.type = "UnescapedVariable"

====
